---- MODULE Spec2Model ----
(***************************************************************************)
(* Asynchronous request lifecycle of server/main.py: the registry          *)
(* active_requests, the executor futures and their done-callbacks, the     *)
(* /chat, /cancel, /status and /reset_user_context handlers and the        *)
(* background_cleanup thread.                                              *)
(*                                                                         *)
(* Every `with active_requests_lock:` block is one atomic step, guarded by *)
(* the lock being free.  A handler that has several such blocks is several *)
(* steps, linked by the handler's position.  Time is a discrete clock that *)
(* advances by TickSeconds; a record's timestamp is kept as its age        *)
(* (now - timestamp), which is all the code ever computes from it.         *)
(***************************************************************************)
EXTENDS Integers, Sequences, FiniteSets, TLC

\* ---- program constants (main.py:21-24) ----
MAX_WORKERS == 5
CLEANUP_INTERVAL_SECONDS == 120
STALE_REQUEST_THRESHOLD_SECONDS == 300
PROCESSING_TIMEOUT_SECONDS == 600
CLEANUP_RETRY_SECONDS == 60
\* the prompt is built from the last HISTORY_WINDOW entries of the history
HISTORY_WINDOW == 10
\* requests of a series that may run to a response, for each user
MaxExchanges == 11

\* ---- bounds of the model ----
TickSeconds == 60

RequestIds == {1, 2}
Owners == {"nurse1", "nurse2"}
Pollers == {"p1", "p2"}

VARIABLES
    active_requests,        \* dict request_id -> record (main.py:137)
    futures,                \* per request: the executor's Future (state, outcome)
    unit_pc,                \* per request: position of process_chat / process_record
    done_callback,          \* per request: state of the registered done-callback
    submit_pc,              \* per request: position of chat_submit / record_submit
    active_requests_lock,   \* "free", or the thread that holds it for good
    cleanup_sleep,          \* seconds the cleanup thread has slept since its last pass
    status_call,            \* per poller: get_status between its two lock scopes
    retrieved,              \* per request: a get_status call returned its terminal result
    reset_call,             \* reset_user_context: its position, user_id and ids_to_cancel
    cancel_reply,           \* per request: what the last cancel_request call returned
    user_contexts,          \* dict user_id -> conversation context (main.py:131)
    user_contexts_lock      \* the requests whose unit holds it: none or one (main.py:40)

vars == <<active_requests, futures, unit_pc, done_callback, submit_pc,
          active_requests_lock, cleanup_sleep, status_call, retrieved, reset_call,
          cancel_reply, user_contexts, user_contexts_lock>>

\* ---- values ----
TerminalStatuses == {"completed", "error", "cancelled"}
LiveStatuses == {"processing", "cancelling"}

MSG_CANCELLED == "Request was cancelled."
MSG_CANCELLED_BEFORE == "Request was cancelled before completion."
MSG_TIMEOUT == "Request timed out due to excessive processing time."
MSG_INTERNAL == "Internal server error during task execution"
MSG_TASK_ERROR == "error message returned by the task"
RESPONSE_DATA == "response_data"
None == "None"

\* what a unit of work can end with: a response dict, a dict carrying an
\* "error" entry, a raised CancelledError, or any other raised exception
UnitOutcomes == {"value", "error_dict", "CancelledError", "exception"}

\* (status code, message) pairs returned by cancel_request
NoReply == [status_code |-> 0, message |-> None]
CANCEL_NOT_FOUND == [status_code |-> 404, message |-> "Request ID not found."]
CANCEL_ACCEPTED == [status_code |-> 200, message |-> "Cancellation requested. Final status pending."]
CANCEL_RUNNING == [status_code |-> 200, message |-> "Cancellation requested, but task could not be interrupted (already running)."]
CANCEL_FUTURE_DONE == [status_code |-> 400, message |-> "Cancellation requested, but task already finished."]
CANCEL_IN_PROGRESS == [status_code |-> 200, message |-> "Cancellation already in progress."]
CANCEL_FINAL_STATE == [status_code |-> 400, message |-> "Request already reached a final state. Cannot cancel."]

NoCall == [entry_to_remove |-> 0, status |-> "idle", data |-> None]
NoReset == [pc |-> "idle", user_id |-> None, ids_to_cancel |-> {}, to_visit |-> {}]

\* request bodies of /chat and /record: user_id and message, either may be
\* missing; other_keys: the body carries some other entry (handsfree, language)
SubmitData == [user_id : Owners \cup {None}, message : {"message", None},
               other_keys : BOOLEAN]

\* the context a user starts with and is reset to
EmptyContext == [patient_id |-> None, chat_history |-> <<>>]

Registered(id) == id \in DOMAIN active_requests

\* dict helpers
DictSet(d, k, v) == [x \in DOMAIN d \cup {k} |-> IF x = k THEN v ELSE d[x]]
DictDel(d, k) == [x \in DOMAIN d \ {k} |-> d[x]]

\* Future.done(): CANCELLED or FINISHED
FutureDone(id) == futures[id].state \in {"CANCELLED", "FINISHED"}
\* Future.cancelled()
FutureCancelled(id) == futures[id].state = "CANCELLED"

\* A record's age after TickSeconds more seconds.  An age is only ever compared
\* with the threshold of the record's status, so it stops growing above it.
AgeAfterTick(info) ==
    LET threshold == IF info.status \in TerminalStatuses
                     THEN STALE_REQUEST_THRESHOLD_SECONDS
                     ELSE PROCESSING_TIMEOUT_SECONDS
    IN  IF info.age > threshold THEN info.age ELSE info.age + TickSeconds

Init ==
    /\ active_requests = [x \in {} |-> 0]
    /\ futures = [id \in RequestIds |->
                    [state |-> "NONE", outcome |-> None, user_id |-> None]]
    /\ unit_pc = [id \in RequestIds |-> "idle"]
    /\ done_callback = [id \in RequestIds |-> "none"]
    /\ submit_pc = [id \in RequestIds |-> "unsubmitted"]
    /\ active_requests_lock = "free"
    /\ cleanup_sleep = 0
    /\ status_call = [p \in Pollers |-> NoCall]
    /\ retrieved = [id \in RequestIds |-> FALSE]
    /\ reset_call = NoReset
    /\ cancel_reply = [id \in RequestIds |-> NoReply]
    /\ user_contexts = [x \in {} |-> 0]
    /\ user_contexts_lock = {}

\* ------------------------------------------------------------------------
\* The executor's future finishing: the thread that makes the future done
\* runs the callbacks registered so far (Future._invoke_callbacks).
\* ------------------------------------------------------------------------
CallbackAfterDone(cb) == IF cb = "registered" THEN "invoking" ELSE cb

\* ------------------------------------------------------------------------
\* chat_submit / record_submit (main.py:981-1058)
\* ------------------------------------------------------------------------
\* `if not user_id: return ... 400` / `if not data.get("message"): return ... 400`
ValidSubmission(data) == data.user_id # None /\ data.message # None

\* request_id = uuid4(): ids are fresh values, taken in order
FreshId(id) ==
    /\ submit_pc[id] = "unsubmitted"
    /\ \A j \in RequestIds : j < id => submit_pc[j] # "unsubmitted"

\* `if not data:` is true of a body without any entry
EmptyBody(data) == data.user_id = None /\ data.message = None /\ ~data.other_keys

\* `if not data: raise ValueError(...)`, caught by the handler's
\* `except Exception`: the handler returns 500
SubmitFailed(id, data) ==
    /\ FreshId(id)
    /\ EmptyBody(data)
    /\ submit_pc' = [submit_pc EXCEPT ![id] = "failed"]
    /\ UNCHANGED <<active_requests, futures, unit_pc, done_callback, active_requests_lock,
                   cleanup_sleep, status_call, retrieved, reset_call, cancel_reply,
                   user_contexts,
                   user_contexts_lock>>

\* validation fails: the handler returns 400 before executor.submit
SubmitRejected(id, data) ==
    /\ FreshId(id)
    /\ ~EmptyBody(data)
    /\ ~ValidSubmission(data)
    /\ submit_pc' = [submit_pc EXCEPT ![id] = "rejected"]
    /\ UNCHANGED <<active_requests, futures, unit_pc, done_callback, active_requests_lock,
                   cleanup_sleep, status_call, retrieved, reset_call, cancel_reply,
                   user_contexts,
                   user_contexts_lock>>

\* executor.submit(process_chat, data, request_id, ...): the work item is
\* queued with the data it will run on
SubmitToExecutor(id, data) ==
    /\ FreshId(id)
    /\ ValidSubmission(data)
    /\ futures' = [futures EXCEPT ![id] =
            [state |-> "PENDING", outcome |-> None, user_id |-> data.user_id]]
    /\ submit_pc' = [submit_pc EXCEPT ![id] = "submitted"]
    /\ UNCHANGED <<active_requests, unit_pc, done_callback, active_requests_lock,
                   cleanup_sleep, status_call, retrieved, reset_call, cancel_reply, user_contexts,
                   user_contexts_lock>>

NewRecord(user_id) ==
    [status |-> "processing", result |-> None, cancel_requested |-> FALSE,
     user_id |-> user_id, age |-> 0]

\* with active_requests_lock: active_requests[request_id] = {...}
RegisterRequest(id, user_id) ==
    /\ submit_pc[id] = "submitted"
    /\ user_id = futures[id].user_id
    /\ active_requests_lock = "free"
    /\ active_requests' = DictSet(active_requests, id, NewRecord(user_id))
    /\ submit_pc' = [submit_pc EXCEPT ![id] = "registered"]
    /\ UNCHANGED <<futures, unit_pc, done_callback, active_requests_lock,
                   cleanup_sleep, status_call, retrieved, reset_call, cancel_reply, user_contexts,
                   user_contexts_lock>>

\* future.add_done_callback(...): runs the callback at once, on this thread,
\* when the future is already done
\* add_done_callback only storing the callback, also on a future already done
AddDoneCallbackNeverImmediate(id) ==
    /\ submit_pc[id] = "registered"
    /\ done_callback' = [done_callback EXCEPT ![id] = "registered"]
    /\ submit_pc' = [submit_pc EXCEPT ![id] = "returned"]
    /\ UNCHANGED <<active_requests, futures, unit_pc, active_requests_lock,
                   cleanup_sleep, status_call, retrieved, reset_call, cancel_reply, user_contexts,
                   user_contexts_lock>>

AddDoneCallback(id) ==
    /\ submit_pc[id] = "registered"
    /\ done_callback' = [done_callback EXCEPT ![id] =
                            IF FutureDone(id) THEN "invoking" ELSE "registered"]
    /\ submit_pc' = [submit_pc EXCEPT ![id] = "returned"]
    /\ UNCHANGED <<active_requests, futures, unit_pc, active_requests_lock,
                   cleanup_sleep, status_call, retrieved, reset_call, cancel_reply, user_contexts,
                   user_contexts_lock>>

\* ------------------------------------------------------------------------
\* The unit of work on a worker thread (process_chat / process_record)
\* ------------------------------------------------------------------------
BusyWorkers == {id \in RequestIds : futures[id].state = "RUNNING"}

\* a free worker takes the queued work item
UnitStart(id) ==
    /\ futures[id].state = "PENDING"
    /\ Cardinality(BusyWorkers) < MAX_WORKERS
    /\ futures' = [futures EXCEPT ![id].state = "RUNNING"]
    /\ unit_pc' = [unit_pc EXCEPT ![id] = "started"]
    /\ UNCHANGED <<active_requests, done_callback, submit_pc, active_requests_lock,
                   cleanup_sleep, status_call, retrieved, reset_call, cancel_reply, user_contexts,
                   user_contexts_lock>>

FinishFuture(id, outcome) ==
    /\ futures' = [futures EXCEPT ![id].state = "FINISHED", ![id].outcome = outcome]
    /\ unit_pc' = [unit_pc EXCEPT ![id] = "done"]
    /\ done_callback' = [done_callback EXCEPT ![id] = CallbackAfterDone(@)]

\* a return {"error": ...} ahead of the cancellation check
UnitEarlyError(id) ==
    /\ futures[id].state = "RUNNING"
    /\ unit_pc[id] = "started"
    /\ FinishFuture(id, "error_dict")
    /\ UNCHANGED <<active_requests, submit_pc, active_requests_lock,
                   cleanup_sleep, status_call, retrieved, reset_call, cancel_reply, user_contexts,
                   user_contexts_lock>>

\* user_id = data.get("user_id")
UnitUser(id) == futures[id].user_id

\* first user_contexts_lock scope: make sure the user's context exists
UnitLoadContext(id) ==
    /\ futures[id].state = "RUNNING"
    /\ unit_pc[id] = "started"
    /\ user_contexts_lock = {}
    /\ user_contexts' = IF UnitUser(id) \in DOMAIN user_contexts
                        THEN user_contexts
                        ELSE DictSet(user_contexts, UnitUser(id), EmptyContext)
    /\ unit_pc' = [unit_pc EXCEPT ![id] = "loaded"]
    /\ UNCHANGED <<active_requests, futures, done_callback, submit_pc,
                   active_requests_lock, cleanup_sleep, status_call, retrieved,
                   reset_call, cancel_reply,
                   user_contexts_lock>>

\* the context written when the message names a patient other than the one
\* in context: identity, details and notes of that patient, history emptied
PatientContext == [patient_id |-> "patient", chat_history |-> <<>>]

\* second user_contexts_lock scope, taken when a new patient is identified and
\* get_patient_notes finds no note to summarise (it returns before its
\* checkpoint): re-read cancel_requested (without active_requests_lock), then
\* replace the user's context
UnitSwitchPatient(id) ==
    /\ futures[id].state = "RUNNING"
    /\ unit_pc[id] = "loaded"
    /\ user_contexts_lock = {}
    /\ IF Registered(id) /\ active_requests[id].cancel_requested
       THEN /\ FinishFuture(id, "CancelledError")
            /\ UNCHANGED user_contexts
       ELSE /\ user_contexts' = DictSet(user_contexts, UnitUser(id), PatientContext)
            /\ unit_pc' = [unit_pc EXCEPT ![id] = "identified"]
            /\ UNCHANGED <<futures, done_callback>>
    /\ UNCHANGED <<active_requests, submit_pc, active_requests_lock,
                   cleanup_sleep, status_call, retrieved, reset_call, cancel_reply,
                   user_contexts_lock>>

\* the same scope when the patient has notes: the unit takes
\* user_contexts_lock and calls get_patient_notes, which reads the notes
UnitFetchNotes(id) ==
    /\ futures[id].state = "RUNNING"
    /\ unit_pc[id] = "loaded"
    /\ user_contexts_lock = {}
    /\ user_contexts_lock' = {id}
    /\ unit_pc' = [unit_pc EXCEPT ![id] = "fetching"]
    /\ UNCHANGED <<active_requests, futures, done_callback, submit_pc,
                   active_requests_lock, cleanup_sleep, status_call, retrieved,
                   reset_call, cancel_reply, user_contexts>>

\* get_patient_notes' check under active_requests_lock before it calls the
\* summarisation chain; CancelledError leaves the with-block of the caller
UnitNotesCheckpoint(id) ==
    /\ futures[id].state = "RUNNING"
    /\ unit_pc[id] = "fetching"
    /\ active_requests_lock = "free"
    /\ IF Registered(id) /\ active_requests[id].cancel_requested
       THEN /\ FinishFuture(id, "CancelledError")
            /\ user_contexts_lock' = {}
       ELSE /\ unit_pc' = [unit_pc EXCEPT ![id] = "summarising"]
            /\ UNCHANGED <<futures, done_callback, user_contexts_lock>>
    /\ UNCHANGED <<active_requests, submit_pc, active_requests_lock,
                   cleanup_sleep, status_call, retrieved, reset_call, cancel_reply,
                   user_contexts>>

\* nurseNotesChain.invoke returns (a failure is returned as an error dict and
\* stored as the notes): re-read cancel_requested without
\* active_requests_lock, replace the user's context, leave the with-block
UnitNotesSummarised(id) ==
    /\ futures[id].state = "RUNNING"
    /\ unit_pc[id] = "summarising"
    /\ IF Registered(id) /\ active_requests[id].cancel_requested
       THEN /\ FinishFuture(id, "CancelledError")
            /\ UNCHANGED user_contexts
       ELSE /\ user_contexts' = DictSet(user_contexts, UnitUser(id), PatientContext)
            /\ unit_pc' = [unit_pc EXCEPT ![id] = "identified"]
            /\ UNCHANGED <<futures, done_callback>>
    /\ user_contexts_lock' = {}
    /\ UNCHANGED <<active_requests, submit_pc, active_requests_lock,
                   cleanup_sleep, status_call, retrieved, reset_call, cancel_reply>>

\* a checkpoint that aborts only when the record is missing
CheckpointCancelsIgnoresFlag(id) == ~Registered(id)

\* the check made under the lock before the main LLM call
CheckpointCancels(id) ==
    \/ ~Registered(id)
    \/ active_requests[id].cancel_requested

UnitCheckpoint(id) ==
    /\ futures[id].state = "RUNNING"
    /\ unit_pc[id] \in {"loaded", "identified"}
    /\ active_requests_lock = "free"
    /\ IF CheckpointCancels(id)
       THEN FinishFuture(id, "CancelledError")
       ELSE /\ unit_pc' = [unit_pc EXCEPT ![id] = "generating"]
            /\ UNCHANGED <<futures, done_callback>>
    /\ UNCHANGED <<active_requests, submit_pc, active_requests_lock,
                   cleanup_sleep, status_call, retrieved, reset_call, cancel_reply, user_contexts,
                   user_contexts_lock>>

\* an append that stores the history the unit loaded when it started,
\* extended by its own exchange
AppendHistoryFromSnapshot(id, ctxs) ==
    IF futures[id].user_id \in DOMAIN ctxs
    THEN [ctxs EXCEPT ![futures[id].user_id].chat_history = <<id>>]
    ELSE ctxs

\* third user_contexts_lock scope, after the LLM call returned:
\* chat_history.append(...) if the user's context is there
AppendHistory(id, ctxs) ==
    IF UnitUser(id) \in DOMAIN ctxs
    THEN [ctxs EXCEPT ![UnitUser(id)].chat_history = Append(@, id)]
    ELSE ctxs

\* the LLM call and the rest of the unit: no further cancellation check.
\* A response is returned after the history append; a failure of the LLM call
\* is caught and returned as an error dict; an exception escapes the unit only
\* when the handler that reports the failure raises itself.
UnitFinish(id, outcome) ==
    /\ futures[id].state = "RUNNING"
    /\ unit_pc[id] = "generating"
    /\ outcome \in {"value", "error_dict", "exception"}
    /\ outcome = "value" => user_contexts_lock = {}
    /\ FinishFuture(id, outcome)
    /\ user_contexts' = IF outcome = "value"
                        THEN AppendHistory(id, user_contexts)
                        ELSE user_contexts
    /\ UNCHANGED <<active_requests, submit_pc, active_requests_lock,
                   cleanup_sleep, status_call, retrieved, reset_call, cancel_reply,
                   user_contexts_lock>>

\* ------------------------------------------------------------------------
\* _handle_future_completion (main.py:917-976)
\* ------------------------------------------------------------------------
\* the try/except of the callback without the test for a returned error dict
CompletionStateNoErrorDict(cancelled, cancel_requested, outcome) ==
    IF cancelled \/ cancel_requested
    THEN [status |-> "cancelled", result |-> MSG_CANCELLED]
    ELSE CASE outcome \in {"value", "error_dict"} ->
                  [status |-> "completed", result |-> RESPONSE_DATA]
           [] outcome = "CancelledError" ->
                  [status |-> "cancelled", result |-> MSG_CANCELLED_BEFORE]
           [] OTHER -> [status |-> "error", result |-> MSG_INTERNAL]

\* the try/except of the callback with the cancel_requested test left out
CompletionStateFutureOnly(cancelled, cancel_requested, outcome) ==
    IF cancelled
    THEN [status |-> "cancelled", result |-> MSG_CANCELLED]
    ELSE CASE outcome = "error_dict" -> [status |-> "error", result |-> MSG_TASK_ERROR]
           [] outcome = "value" -> [status |-> "completed", result |-> RESPONSE_DATA]
           [] outcome = "CancelledError" ->
                  [status |-> "cancelled", result |-> MSG_CANCELLED_BEFORE]
           [] OTHER -> [status |-> "error", result |-> MSG_INTERNAL]

\* status and result chosen by the try/except of the callback
CompletionState(cancelled, cancel_requested, outcome) ==
    IF cancelled \/ cancel_requested
    THEN [status |-> "cancelled", result |-> MSG_CANCELLED]
    ELSE CASE outcome = "error_dict" -> [status |-> "error", result |-> MSG_TASK_ERROR]
           [] outcome = "value" -> [status |-> "completed", result |-> RESPONSE_DATA]
           [] outcome = "CancelledError" ->
                  [status |-> "cancelled", result |-> MSG_CANCELLED_BEFORE]
           [] OTHER -> [status |-> "error", result |-> MSG_INTERNAL]

\* the callback letting an exception of the unit escape: record left as it is
HandleFutureCompletionExceptionEscapes(request_id, reqs) ==
    IF request_id \notin DOMAIN reqs THEN reqs
    ELSE IF reqs[request_id].status \notin {"processing", "cancelling"} THEN reqs
    ELSE LET request_info == reqs[request_id]
             final == CompletionState(FutureCancelled(request_id),
                                      request_info.cancel_requested,
                                      futures[request_id].outcome)
         IN  IF /\ ~FutureCancelled(request_id)
                /\ ~request_info.cancel_requested
                /\ futures[request_id].outcome = "exception"
             THEN reqs
             ELSE [reqs EXCEPT ![request_id] =
                     [request_info EXCEPT !.status = final.status,
                                          !.result = final.result,
                                          !.age = 0]]

\* the callback dropping the record it finalises
HandleFutureCompletionDropsRecord(request_id, reqs) ==
    IF request_id \notin DOMAIN reqs THEN reqs
    ELSE IF reqs[request_id].status \notin {"processing", "cancelling"} THEN reqs
    ELSE [x \in DOMAIN reqs \ {request_id} |-> reqs[x]]

\* the callback clearing cancel_requested when it finalises the record
HandleFutureCompletionClearsFlag(request_id, reqs) ==
    IF request_id \notin DOMAIN reqs THEN reqs
    ELSE IF reqs[request_id].status \notin {"processing", "cancelling"} THEN reqs
    ELSE LET request_info == reqs[request_id]
             final == CompletionState(FutureCancelled(request_id),
                                      request_info.cancel_requested,
                                      futures[request_id].outcome)
         IN  [reqs EXCEPT ![request_id] =
                 [request_info EXCEPT !.status = final.status,
                                      !.result = final.result,
                                      !.cancel_requested = FALSE,
                                      !.age = 0]]

\* the callback creating a record when it finds none for its request id
HandleFutureCompletionRecreates(request_id, reqs) ==
    IF request_id \notin DOMAIN reqs
    THEN [x \in DOMAIN reqs \cup {request_id} |->
            IF x = request_id
            THEN [status |-> "completed", result |-> RESPONSE_DATA,
                  cancel_requested |-> FALSE,
                  user_id |-> futures[request_id].user_id, age |-> 0]
            ELSE reqs[x]]
    ELSE IF reqs[request_id].status \notin {"processing", "cancelling"} THEN reqs
    ELSE LET request_info == reqs[request_id]
             final == CompletionState(FutureCancelled(request_id),
                                      request_info.cancel_requested,
                                      futures[request_id].outcome)
         IN  [reqs EXCEPT ![request_id] =
                 [request_info EXCEPT !.status = final.status,
                                      !.result = final.result,
                                      !.age = 0]]

\* the callback refreshing the timestamp of a record that is already final
HandleFutureCompletionRefreshesFinal(request_id, reqs) ==
    IF request_id \notin DOMAIN reqs THEN reqs
    ELSE IF reqs[request_id].status \notin {"processing", "cancelling"}
    THEN [reqs EXCEPT ![request_id].age = 0]
    ELSE LET request_info == reqs[request_id]
             final == CompletionState(FutureCancelled(request_id),
                                      request_info.cancel_requested,
                                      futures[request_id].outcome)
         IN  [reqs EXCEPT ![request_id] =
                 [request_info EXCEPT !.status = final.status,
                                      !.result = final.result,
                                      !.age = 0]]

\* the callback without its "status already final" early return
HandleFutureCompletionNoFinalCheck(request_id, reqs) ==
    IF request_id \notin DOMAIN reqs THEN reqs
    ELSE LET request_info == reqs[request_id]
             final == CompletionState(FutureCancelled(request_id),
                                      request_info.cancel_requested,
                                      futures[request_id].outcome)
         IN  [reqs EXCEPT ![request_id] =
                 [request_info EXCEPT !.status = final.status,
                                      !.result = final.result,
                                      !.age = 0]]

HandleFutureCompletion(request_id, reqs) ==
    IF request_id \notin DOMAIN reqs THEN reqs
    ELSE IF reqs[request_id].status \notin {"processing", "cancelling"} THEN reqs
    ELSE LET request_info == reqs[request_id]
             final == CompletionState(FutureCancelled(request_id),
                                      request_info.cancel_requested,
                                      futures[request_id].outcome)
         IN  [reqs EXCEPT ![request_id] =
                 [request_info EXCEPT !.status = final.status,
                                      !.result = final.result,
                                      !.age = 0]]

_handle_future_completion(id) ==
    /\ done_callback[id] = "invoking"
    /\ active_requests_lock = "free"
    /\ active_requests' = HandleFutureCompletion(id, active_requests)
    /\ done_callback' = [done_callback EXCEPT ![id] = "finished"]
    /\ UNCHANGED <<futures, unit_pc, submit_pc, active_requests_lock,
                   cleanup_sleep, status_call, retrieved, reset_call, cancel_reply, user_contexts,
                   user_contexts_lock>>

\* ------------------------------------------------------------------------
\* cancel_request (main.py:1061-1121)
\* ------------------------------------------------------------------------
\* the body of `if current_status == "processing":`, shared with
\* reset_user_context (main.py:1277-1288); who is the calling thread.
\* future.cancel() succeeds on a PENDING future and then runs the registered
\* done-callback on the calling thread, inside the lock scope: the callback
\* waits for active_requests_lock, which the caller holds.
\* cancel_requested set only when the executor accepts the cancel
CancelProcessingFlagOnAccept(id, who) ==
    IF ~FutureDone(id) /\ futures[id].state = "PENDING"
    THEN /\ futures' = [futures EXCEPT ![id].state = "CANCELLED"]
         /\ IF done_callback[id] = "registered"
            THEN /\ done_callback' = [done_callback EXCEPT ![id] = "invoking"]
                 /\ active_requests_lock' = who
                 /\ active_requests' =
                        [active_requests EXCEPT ![id].cancel_requested = TRUE]
            ELSE /\ active_requests' =
                        [active_requests EXCEPT ![id].cancel_requested = TRUE,
                                                ![id].status = "cancelling",
                                                ![id].age = 0]
                 /\ UNCHANGED <<done_callback, active_requests_lock>>
    ELSE UNCHANGED <<active_requests, futures, done_callback, active_requests_lock>>

\* status set to cancelling whether or not the executor accepts the cancel
CancelProcessingMarksRunning(id, who) ==
    LET request_info == active_requests[id] IN
    IF FutureDone(id)
    THEN /\ active_requests' = [active_requests EXCEPT ![id].cancel_requested = TRUE]
         /\ UNCHANGED <<futures, done_callback, active_requests_lock>>
    ELSE IF futures[id].state = "PENDING"
    THEN /\ futures' = [futures EXCEPT ![id].state = "CANCELLED"]
         /\ IF done_callback[id] = "registered"
            THEN /\ done_callback' = [done_callback EXCEPT ![id] = "invoking"]
                 /\ active_requests_lock' = who
                 /\ active_requests' =
                        [active_requests EXCEPT ![id].cancel_requested = TRUE]
            ELSE /\ active_requests' =
                        [active_requests EXCEPT ![id].cancel_requested = TRUE,
                                                ![id].status = "cancelling",
                                                ![id].age = 0]
                 /\ UNCHANGED <<done_callback, active_requests_lock>>
    ELSE /\ active_requests' = [active_requests EXCEPT ![id].cancel_requested = TRUE,
                                                       ![id].status = "cancelling",
                                                       ![id].age = 0]
         /\ UNCHANGED <<futures, done_callback, active_requests_lock>>

\* a cancel that writes the final state itself when the executor accepts it
CancelProcessingSetsCancelled(id, who) ==
    IF FutureDone(id)
    THEN /\ active_requests' = [active_requests EXCEPT ![id].cancel_requested = TRUE]
         /\ UNCHANGED <<futures, done_callback, active_requests_lock>>
    ELSE IF futures[id].state = "PENDING"
    THEN /\ futures' = [futures EXCEPT ![id].state = "CANCELLED"]
         /\ IF done_callback[id] = "registered"
            THEN /\ done_callback' = [done_callback EXCEPT ![id] = "invoking"]
                 /\ active_requests_lock' = who
                 /\ active_requests' =
                        [active_requests EXCEPT ![id].cancel_requested = TRUE]
            ELSE /\ active_requests' =
                        [active_requests EXCEPT ![id].cancel_requested = TRUE,
                                                ![id].status = "cancelled",
                                                ![id].result = MSG_CANCELLED,
                                                ![id].age = 0]
                 /\ UNCHANGED <<done_callback, active_requests_lock>>
    ELSE /\ active_requests' = [active_requests EXCEPT ![id].cancel_requested = TRUE]
         /\ UNCHANGED <<futures, done_callback, active_requests_lock>>

CancelProcessing(id, who) ==
    LET request_info == active_requests[id] IN
    IF FutureDone(id)
    THEN /\ active_requests' = [active_requests EXCEPT ![id].cancel_requested = TRUE]
         /\ UNCHANGED <<futures, done_callback, active_requests_lock>>
    ELSE IF futures[id].state = "PENDING"
    THEN /\ futures' = [futures EXCEPT ![id].state = "CANCELLED"]
         /\ IF done_callback[id] = "registered"
            THEN /\ done_callback' = [done_callback EXCEPT ![id] = "invoking"]
                 /\ active_requests_lock' = who
                 /\ active_requests' =
                        [active_requests EXCEPT ![id].cancel_requested = TRUE]
            ELSE /\ active_requests' =
                        [active_requests EXCEPT ![id].cancel_requested = TRUE,
                                                ![id].status = "cancelling",
                                                ![id].age = 0]
                 /\ UNCHANGED <<done_callback, active_requests_lock>>
    ELSE /\ active_requests' = [active_requests EXCEPT ![id].cancel_requested = TRUE]
         /\ UNCHANGED <<futures, done_callback, active_requests_lock>>

\* what the call returns, from the state it finds
CancelReply(id) ==
    IF ~Registered(id) THEN CANCEL_NOT_FOUND
    ELSE CASE active_requests[id].status = "processing" ->
                  IF FutureDone(id) THEN CANCEL_FUTURE_DONE
                  ELSE IF futures[id].state = "PENDING" THEN CANCEL_ACCEPTED
                  ELSE CANCEL_RUNNING
           [] active_requests[id].status = "cancelling" -> CANCEL_IN_PROGRESS
           [] OTHER -> CANCEL_FINAL_STATE

\* a cancel that marks cancel_requested on a record in a final state too
cancel_requestMarksFinal(id) ==
    /\ active_requests_lock = "free"
    /\ IF Registered(id) /\ active_requests[id].status = "processing"
       THEN CancelProcessing(id, "cancel_request")
       ELSE IF Registered(id)
       THEN /\ active_requests' = [active_requests EXCEPT ![id].cancel_requested = TRUE]
            /\ UNCHANGED <<futures, done_callback, active_requests_lock>>
       ELSE UNCHANGED <<active_requests, futures, done_callback, active_requests_lock>>
    /\ cancel_reply' = IF active_requests_lock' = "free"
                       THEN [cancel_reply EXCEPT ![id] = CancelReply(id)]
                       ELSE cancel_reply
    /\ UNCHANGED <<unit_pc, submit_pc, cleanup_sleep, status_call, retrieved, reset_call,
                   user_contexts,
                   user_contexts_lock>>

cancel_request(id) ==
    /\ active_requests_lock = "free"
    /\ IF Registered(id) /\ active_requests[id].status = "processing"
       THEN CancelProcessing(id, "cancel_request")
       ELSE UNCHANGED <<active_requests, futures, done_callback, active_requests_lock>>
    \* a call stuck inside future.cancel() never reaches its return
    /\ cancel_reply' = IF active_requests_lock' = "free"
                       THEN [cancel_reply EXCEPT ![id] = CancelReply(id)]
                       ELSE cancel_reply
    /\ UNCHANGED <<unit_pc, submit_pc, cleanup_sleep, status_call, retrieved, reset_call,
                   user_contexts,
                   user_contexts_lock>>

\* ------------------------------------------------------------------------
\* reset_user_context (main.py:1246-1320)
\* ------------------------------------------------------------------------
\* a collection that takes every live request, whoever its user is
IdsToCancelAnyOwner(user_id) ==
    {id \in DOMAIN active_requests :
        active_requests[id].status \in {"processing", "cancelling"}}

IdsToCancel(user_id) ==
    {id \in DOMAIN active_requests :
        /\ active_requests[id].user_id = user_id
        /\ active_requests[id].status \in {"processing", "cancelling"}}

\* first lock scope: collect the owner's live requests
ResetCollect(user_id) ==
    /\ reset_call = NoReset
    /\ active_requests_lock = "free"
    /\ reset_call' = [pc |-> "cancel", user_id |-> user_id,
                      ids_to_cancel |-> IdsToCancel(user_id),
                      to_visit |-> IdsToCancel(user_id)]
    /\ UNCHANGED <<active_requests, futures, unit_pc, done_callback, submit_pc,
                   active_requests_lock, cleanup_sleep, status_call, retrieved, cancel_reply, user_contexts,
                   user_contexts_lock>>

\* an iteration that leaves a request alone when its unit is already running
ResetCancelSkipsRunning(id) ==
    /\ reset_call.pc = "cancel"
    /\ id \in reset_call.to_visit
    /\ \A j \in reset_call.to_visit : id <= j
    /\ active_requests_lock = "free"
    /\ IF /\ Registered(id)
          /\ active_requests[id].status = "processing"
          /\ futures[id].state # "RUNNING"
       THEN CancelProcessing(id, "reset_user_context")
       ELSE IF Registered(id) /\ active_requests[id].status = "cancelling"
       THEN /\ active_requests' = [active_requests EXCEPT ![id].cancel_requested = TRUE]
            /\ UNCHANGED <<futures, done_callback, active_requests_lock>>
       ELSE UNCHANGED <<active_requests, futures, done_callback, active_requests_lock>>
    /\ reset_call' = IF active_requests_lock' = "free"
                     THEN [reset_call EXCEPT !.to_visit = @ \ {id}]
                     ELSE reset_call
    /\ UNCHANGED <<unit_pc, submit_pc, cleanup_sleep, status_call, retrieved, cancel_reply,
                   user_contexts,
                   user_contexts_lock>>

\* one iteration of `for req_id in ids_to_cancel`, one lock scope each; the
\* list is in insertion order of the registry, which is the order of the ids
ResetCancel(id) ==
    /\ reset_call.pc = "cancel"
    /\ id \in reset_call.to_visit
    /\ \A j \in reset_call.to_visit : id <= j
    /\ active_requests_lock = "free"
    /\ IF Registered(id) /\ active_requests[id].status = "processing"
       THEN CancelProcessing(id, "reset_user_context")
       ELSE IF Registered(id) /\ active_requests[id].status = "cancelling"
       THEN /\ active_requests' = [active_requests EXCEPT ![id].cancel_requested = TRUE]
            /\ UNCHANGED <<futures, done_callback, active_requests_lock>>
       ELSE UNCHANGED <<active_requests, futures, done_callback, active_requests_lock>>
    /\ reset_call' = IF active_requests_lock' = "free"
                     THEN [reset_call EXCEPT !.to_visit = @ \ {id}]
                     ELSE reset_call
    /\ UNCHANGED <<unit_pc, submit_pc, cleanup_sleep, status_call, retrieved, cancel_reply,
                   user_contexts,
                   user_contexts_lock>>

\* after the loop, with user_contexts_lock: the user's context, if there is
\* one, is replaced by the empty context
ResetContext ==
    /\ reset_call.pc = "cancel"
    /\ reset_call.to_visit = {}
    /\ user_contexts_lock = {}
    /\ user_contexts' = IF reset_call.user_id \in DOMAIN user_contexts
                        THEN [user_contexts EXCEPT ![reset_call.user_id] = EmptyContext]
                        ELSE user_contexts
    /\ reset_call' = [reset_call EXCEPT !.pc = "respond"]
    /\ UNCHANGED <<active_requests, futures, unit_pc, done_callback, submit_pc,
                   active_requests_lock, cleanup_sleep, status_call, retrieved, cancel_reply,
                   user_contexts_lock>>

\* return jsonify({"message": msg, "user_existed": ...}), 200
ResetReturn ==
    /\ reset_call.pc = "respond"
    /\ reset_call' = NoReset
    /\ UNCHANGED <<active_requests, futures, unit_pc, done_callback, submit_pc,
                   active_requests_lock, cleanup_sleep, status_call, retrieved, cancel_reply,
                   user_contexts,
                   user_contexts_lock>>

\* ------------------------------------------------------------------------
\* get_status (main.py:1124-1178)
\* ------------------------------------------------------------------------
\* response_data built in the first lock scope
StatusView(id) ==
    IF ~Registered(id) THEN [status |-> "not found", data |-> None]
    ELSE LET request_info == active_requests[id] IN
         IF request_info.status \in TerminalStatuses
         THEN [status |-> request_info.status, data |-> request_info.result]
         ELSE [status |-> request_info.status, data |-> None]

\* first lock scope: a terminal status marks the entry for removal
StatusRead(p, id) ==
    /\ status_call[p] = NoCall
    /\ active_requests_lock = "free"
    /\ StatusView(id).status \in TerminalStatuses
    /\ status_call' = [status_call EXCEPT ![p] =
            [entry_to_remove |-> id, status |-> StatusView(id).status,
             data |-> StatusView(id).data]]
    /\ UNCHANGED <<active_requests, futures, unit_pc, done_callback, submit_pc,
                   active_requests_lock, cleanup_sleep, retrieved, reset_call, cancel_reply, user_contexts,
                   user_contexts_lock>>

\* the second lock scope without the del
StatusCleanupKeepsEntry(p) ==
    /\ status_call[p] # NoCall
    /\ active_requests_lock = "free"
    /\ retrieved' = [retrieved EXCEPT ![status_call[p].entry_to_remove] = TRUE]
    /\ status_call' = [status_call EXCEPT ![p] = NoCall]
    /\ UNCHANGED <<active_requests, futures, unit_pc, done_callback, submit_pc,
                   active_requests_lock, cleanup_sleep, reset_call, cancel_reply, user_contexts,
                   user_contexts_lock>>

\* the second lock scope deleting every record in the status it read
StatusCleanupByStatus(p) ==
    /\ status_call[p] # NoCall
    /\ active_requests_lock = "free"
    /\ active_requests' =
          [x \in {y \in DOMAIN active_requests :
                     active_requests[y].status # status_call[p].status} |->
              active_requests[x]]
    /\ retrieved' = [retrieved EXCEPT ![status_call[p].entry_to_remove] = TRUE]
    /\ status_call' = [status_call EXCEPT ![p] = NoCall]
    /\ UNCHANGED <<futures, unit_pc, done_callback, submit_pc,
                   active_requests_lock, cleanup_sleep, reset_call, cancel_reply, user_contexts,
                   user_contexts_lock>>

\* second lock scope: del active_requests[entry_to_remove], then return
StatusCleanup(p) ==
    /\ status_call[p] # NoCall
    /\ active_requests_lock = "free"
    /\ active_requests' = DictDel(active_requests, status_call[p].entry_to_remove)
    /\ retrieved' = [retrieved EXCEPT ![status_call[p].entry_to_remove] = TRUE]
    /\ status_call' = [status_call EXCEPT ![p] = NoCall]
    /\ UNCHANGED <<futures, unit_pc, done_callback, submit_pc,
                   active_requests_lock, cleanup_sleep, reset_call, cancel_reply, user_contexts,
                   user_contexts_lock>>

\* ------------------------------------------------------------------------
\* background_cleanup (main.py:1182-1241)
\* ------------------------------------------------------------------------
\* staleness measured against the processing timeout
StaleAfterTimeout(info) ==
    /\ info.status \in TerminalStatuses
    /\ info.age > PROCESSING_TIMEOUT_SECONDS

\* a pass that force-fails a timed-out record without storing the message
CleanupPassKeepsResult(reqs) ==
    LET ids_to_remove == {id \in DOMAIN reqs :
                             /\ reqs[id].status \in TerminalStatuses
                             /\ reqs[id].age > STALE_REQUEST_THRESHOLD_SECONDS}
    IN  [id \in DOMAIN reqs \ ids_to_remove |->
            IF /\ reqs[id].status \in {"processing", "cancelling"}
               /\ reqs[id].age > PROCESSING_TIMEOUT_SECONDS
            THEN [reqs[id] EXCEPT !.status = "error", !.age = 0]
            ELSE reqs[id]]

\* staleness by age alone, whatever the status
StaleIgnoresStatus(info) == info.age > STALE_REQUEST_THRESHOLD_SECONDS

Stale(info) ==
    /\ info.status \in TerminalStatuses
    /\ info.age > STALE_REQUEST_THRESHOLD_SECONDS

TimedOut(info) ==
    /\ PROCESSING_TIMEOUT_SECONDS > 0
    /\ info.status \in {"processing", "cancelling"}
    /\ info.age > PROCESSING_TIMEOUT_SECONDS

\* a pass that removes the records it times out
CleanupPassRemovesTimedOut(reqs) ==
    LET ids_to_remove == {id \in DOMAIN reqs :
                             \/ /\ reqs[id].status \in TerminalStatuses
                                /\ reqs[id].age > STALE_REQUEST_THRESHOLD_SECONDS
                             \/ /\ reqs[id].status \in {"processing", "cancelling"}
                                /\ reqs[id].age > PROCESSING_TIMEOUT_SECONDS}
    IN  [id \in DOMAIN reqs \ ids_to_remove |-> reqs[id]]

CleanupPass(reqs) ==
    LET ids_to_remove == {id \in DOMAIN reqs : Stale(reqs[id])}
    IN  [id \in DOMAIN reqs \ ids_to_remove |->
            IF TimedOut(reqs[id])
            THEN [reqs[id] EXCEPT !.status = "error", !.result = MSG_TIMEOUT, !.age = 0]
            ELSE reqs[id]]

background_cleanup ==
    /\ cleanup_sleep >= CLEANUP_INTERVAL_SECONDS
    /\ active_requests_lock = "free"
    /\ active_requests' = CleanupPass(active_requests)
    /\ cleanup_sleep' = 0
    /\ UNCHANGED <<futures, unit_pc, done_callback, submit_pc,
                   active_requests_lock, status_call, retrieved, reset_call, cancel_reply, user_contexts,
                   user_contexts_lock>>

\* a pass that raises while it holds the lock and leaves without releasing it
background_cleanup_failsHoldingLock(scanned) ==
    /\ cleanup_sleep >= CLEANUP_INTERVAL_SECONDS
    /\ active_requests_lock = "free"
    /\ scanned \subseteq DOMAIN active_requests
    /\ active_requests' =
          [id \in DOMAIN active_requests |->
              IF /\ id \in scanned
                 /\ active_requests[id].status \in {"processing", "cancelling"}
                 /\ active_requests[id].age > PROCESSING_TIMEOUT_SECONDS
              THEN [active_requests[id] EXCEPT !.status = "error",
                                               !.result = MSG_TIMEOUT, !.age = 0]
              ELSE active_requests[id]]
    /\ active_requests_lock' = "background_cleanup"
    /\ cleanup_sleep' = 0 - CLEANUP_RETRY_SECONDS
    /\ UNCHANGED <<futures, unit_pc, done_callback, submit_pc,
                   status_call, retrieved, reset_call, cancel_reply, user_contexts,
                   user_contexts_lock>>

\* a pass in which an exception is raised during the scan, after the records
\* in scanned were examined: the with-block releases the lock, the handler
\* of the loop logs the error and sleeps CLEANUP_RETRY_SECONDS, and the loop
\* goes back to its sleep of CLEANUP_INTERVAL_SECONDS
background_cleanup_fails(scanned) ==
    /\ cleanup_sleep >= CLEANUP_INTERVAL_SECONDS
    /\ active_requests_lock = "free"
    /\ scanned \subseteq DOMAIN active_requests
    /\ active_requests' =
          [id \in DOMAIN active_requests |->
              IF id \in scanned /\ TimedOut(active_requests[id])
              THEN [active_requests[id] EXCEPT !.status = "error",
                                               !.result = MSG_TIMEOUT, !.age = 0]
              ELSE active_requests[id]]
    /\ cleanup_sleep' = 0 - CLEANUP_RETRY_SECONDS
    /\ UNCHANGED <<futures, unit_pc, done_callback, submit_pc,
                   active_requests_lock, status_call, retrieved, reset_call, cancel_reply,
                   user_contexts, user_contexts_lock>>

\* ------------------------------------------------------------------------
\* Time
\* ------------------------------------------------------------------------
Tick ==
    /\ active_requests' = [id \in DOMAIN active_requests |->
            [active_requests[id] EXCEPT !.age = AgeAfterTick(active_requests[id])]]
    /\ cleanup_sleep' = IF cleanup_sleep >= CLEANUP_INTERVAL_SECONDS
                        THEN cleanup_sleep ELSE cleanup_sleep + TickSeconds
    /\ UNCHANGED <<futures, unit_pc, done_callback, submit_pc,
                   active_requests_lock, status_call, retrieved, reset_call, cancel_reply, user_contexts,
                   user_contexts_lock>>

\* every step taken on behalf of request id: its submission, its unit of
\* work, its completion callback and the client calls that name it
RequestStep(id) ==
    \/ \E data \in SubmitData : SubmitFailed(id, data)
    \/ \E data \in SubmitData : SubmitRejected(id, data)
    \/ \E data \in SubmitData : SubmitToExecutor(id, data)
    \/ \E u \in Owners : RegisterRequest(id, u)
    \/ AddDoneCallback(id)
    \/ UnitStart(id)
    \/ UnitEarlyError(id)
    \/ UnitLoadContext(id)
    \/ UnitSwitchPatient(id)
    \/ UnitFetchNotes(id)
    \/ UnitNotesCheckpoint(id)
    \/ UnitNotesSummarised(id)
    \/ UnitCheckpoint(id)
    \/ \E o \in UnitOutcomes : UnitFinish(id, o)
    \/ _handle_future_completion(id)
    \/ cancel_request(id)
    \/ ResetCancel(id)
    \/ \E p \in Pollers : StatusRead(p, id)

ServerStep ==
    \/ \E u \in Owners : ResetCollect(u)
    \/ ResetContext
    \/ ResetReturn
    \/ \E p \in Pollers : StatusCleanup(p)

\* one request in flight, with the clock and the cleanup thread
Next ==
    \/ RequestStep(1)
    \/ ServerStep
    \/ background_cleanup
    \/ Tick

Spec == Init /\ [][Next]_vars

\* What the threads' scheduling guarantees: a thread that can take its next
\* step takes it.  Client calls are not forced, and a unit of work may block
\* on the generation service for ever.
Fairness ==
    /\ WF_vars(Tick)
    /\ WF_vars(background_cleanup)
    /\ WF_vars(\E u \in Owners : RegisterRequest(1, u))
    /\ WF_vars(AddDoneCallback(1))
    /\ WF_vars(UnitStart(1))
    /\ WF_vars(_handle_future_completion(1))
    /\ WF_vars(ResetCancel(1))
    /\ WF_vars(ResetContext)
    /\ WF_vars(ResetReturn)
    /\ \A p \in Pollers : WF_vars(StatusCleanup(p))

FairSpec == Spec /\ Fairness

\* two requests in flight, within one sleep of the cleanup thread
NextPair ==
    \/ \E id \in RequestIds : RequestStep(id)
    \/ ServerStep

SpecPair == Init /\ [][NextPair]_vars

\* ------------------------------------------------------------------------
\* The registry at rest: both requests have run to their end and their
\* callbacks have stored the outcomes; what remains is the polls, the
\* cleanup thread and the clock.
\* ------------------------------------------------------------------------
\* the record of a request nobody cancelled, after its callback, age seconds ago
FinishedRecord(user_id, outcome, age) ==
    LET final == CompletionState(FALSE, FALSE, outcome)
    IN  [NewRecord(user_id) EXCEPT !.status = final.status,
                                   !.result = final.result,
                                   !.age = age]

OwnerOf(id) == IF id = 1 THEN "nurse1" ELSE "nurse2"

\* ages of the finished records when the observation starts
FinishedAges == {0, 2 * TickSeconds}

InitFinished ==
    \E outcome \in [RequestIds -> UnitOutcomes], age \in [RequestIds -> FinishedAges] :
        /\ active_requests =
              [id \in RequestIds |-> FinishedRecord(OwnerOf(id), outcome[id], age[id])]
        /\ futures = [id \in RequestIds |->
              [state |-> "FINISHED", outcome |-> outcome[id], user_id |-> OwnerOf(id)]]
        /\ unit_pc = [id \in RequestIds |-> "done"]
        /\ done_callback = [id \in RequestIds |-> "finished"]
        /\ submit_pc = [id \in RequestIds |-> "returned"]
        /\ active_requests_lock = "free"
        /\ cleanup_sleep = 0
        /\ status_call = [p \in Pollers |-> NoCall]
        /\ retrieved = [id \in RequestIds |-> FALSE]
        /\ reset_call = NoReset
        /\ cancel_reply = [id \in RequestIds |-> NoReply]
        /\ user_contexts = [u \in Owners |->
              [EmptyContext EXCEPT !.chat_history =
                  IF \E id \in RequestIds : OwnerOf(id) = u /\ outcome[id] = "value"
                  THEN <<CHOOSE id \in RequestIds : OwnerOf(id) = u>>
                  ELSE <<>>]]
        /\ user_contexts_lock = {}

NextSweep ==
    \/ \E p \in Pollers, id \in RequestIds : StatusRead(p, id)
    \/ \E p \in Pollers : StatusCleanup(p)
    \/ background_cleanup
    \/ Tick

SpecSweep == InitFinished /\ [][NextSweep]_vars

\* ------------------------------------------------------------------------
\* The cleanup thread with passes that fail: each request has either run to
\* its end or is stuck in its LLM call for good.
\* ------------------------------------------------------------------------
InitAtRest ==
    \E outcome \in [RequestIds -> UnitOutcomes \cup {None}] :
        /\ active_requests =
              [id \in RequestIds |->
                  IF outcome[id] = None
                  THEN NewRecord(OwnerOf(id))
                  ELSE FinishedRecord(OwnerOf(id), outcome[id], 0)]
        /\ futures = [id \in RequestIds |->
              [state |-> IF outcome[id] = None THEN "RUNNING" ELSE "FINISHED",
               outcome |-> outcome[id], user_id |-> OwnerOf(id)]]
        /\ unit_pc = [id \in RequestIds |->
              IF outcome[id] = None THEN "generating" ELSE "done"]
        /\ done_callback = [id \in RequestIds |->
              IF outcome[id] = None THEN "registered" ELSE "finished"]
        /\ submit_pc = [id \in RequestIds |-> "returned"]
        /\ active_requests_lock = "free"
        /\ cleanup_sleep = 0
        /\ status_call = [p \in Pollers |-> NoCall]
        /\ retrieved = [id \in RequestIds |-> FALSE]
        /\ reset_call = NoReset
        /\ cancel_reply = [id \in RequestIds |-> NoReply]
        /\ user_contexts = [u \in Owners |->
              [EmptyContext EXCEPT !.chat_history =
                  IF \E id \in RequestIds : OwnerOf(id) = u /\ outcome[id] = "value"
                  THEN <<CHOOSE id \in RequestIds : OwnerOf(id) = u>>
                  ELSE <<>>]]
        /\ user_contexts_lock = {}

NextJanitor ==
    \/ \E p \in Pollers, id \in RequestIds : StatusRead(p, id)
    \/ \E p \in Pollers : StatusCleanup(p)
    \/ background_cleanup
    \/ \E scanned \in SUBSET RequestIds : background_cleanup_fails(scanned)
    \/ Tick

SpecJanitor == InitAtRest /\ [][NextJanitor]_vars

\* The clock advances; the loop comes to a pass whenever its sleep is over,
\* and not every pass fails.
FairJanitor ==
    /\ SpecJanitor
    /\ WF_vars(Tick)
    /\ SF_vars(background_cleanup)

\* ------------------------------------------------------------------------
\* A series of requests, one after the other: when the record of a request
\* is gone from the registry the client submits the next one, which gets a
\* new uuid4.  The model takes the slot of the finished request for it.
\* ------------------------------------------------------------------------
NextRequestId(id) ==
    /\ submit_pc[id] = "returned"
    /\ FutureDone(id)
    /\ done_callback[id] = "finished"
    /\ ~Registered(id)
    /\ \A p \in Pollers : status_call[p] = NoCall
    /\ \A u \in DOMAIN user_contexts :
            Len(user_contexts[u].chat_history) < MaxExchanges
    /\ futures' = [futures EXCEPT ![id] =
            [state |-> "NONE", outcome |-> None, user_id |-> None]]
    /\ unit_pc' = [unit_pc EXCEPT ![id] = "idle"]
    /\ done_callback' = [done_callback EXCEPT ![id] = "none"]
    /\ submit_pc' = [submit_pc EXCEPT ![id] = "unsubmitted"]
    /\ retrieved' = [retrieved EXCEPT ![id] = FALSE]
    /\ cancel_reply' = [cancel_reply EXCEPT ![id] = NoReply]
    /\ UNCHANGED <<active_requests, active_requests_lock, cleanup_sleep, status_call,
                   reset_call, user_contexts, user_contexts_lock>>

NextSeries ==
    \/ \E data \in SubmitData : SubmitToExecutor(1, data)
    \/ \E u \in Owners : RegisterRequest(1, u)
    \/ AddDoneCallback(1)
    \/ UnitStart(1)
    \/ UnitLoadContext(1)
    \/ UnitCheckpoint(1)
    \/ \E o \in UnitOutcomes : UnitFinish(1, o)
    \/ _handle_future_completion(1)
    \/ \E p \in Pollers : StatusRead(p, 1)
    \/ \E p \in Pollers : StatusCleanup(p)
    \/ NextRequestId(1)

SpecSeries == Init /\ [][NextSeries]_vars

\* ------------------------------------------------------------------------
\* Two units of work side by side: both submissions have returned, the two
\* requests wait in the executor's queue; what remains is the units, their
\* callbacks and the cancel calls.
\* ------------------------------------------------------------------------
InitSubmitted ==
    \E owner2 \in Owners :
        LET owner == [id \in RequestIds |-> IF id = 1 THEN "nurse1" ELSE owner2] IN
        /\ active_requests = [id \in RequestIds |-> NewRecord(owner[id])]
        /\ futures = [id \in RequestIds |->
              [state |-> "PENDING", outcome |-> None, user_id |-> owner[id]]]
        /\ unit_pc = [id \in RequestIds |-> "idle"]
        /\ done_callback = [id \in RequestIds |-> "registered"]
        /\ submit_pc = [id \in RequestIds |-> "returned"]
        /\ active_requests_lock = "free"
        /\ cleanup_sleep = 0
        /\ status_call = [p \in Pollers |-> NoCall]
        /\ retrieved = [id \in RequestIds |-> FALSE]
        /\ reset_call = NoReset
        /\ cancel_reply = [id \in RequestIds |-> NoReply]
        /\ user_contexts = [x \in {} |-> 0]
        /\ user_contexts_lock = {}

\* the steps of the unit of work of request id
UnitStep(id) ==
    \/ UnitStart(id)
    \/ UnitEarlyError(id)
    \/ UnitLoadContext(id)
    \/ UnitSwitchPatient(id)
    \/ UnitFetchNotes(id)
    \/ UnitNotesCheckpoint(id)
    \/ UnitNotesSummarised(id)
    \/ UnitCheckpoint(id)
    \/ \E o \in UnitOutcomes : UnitFinish(id, o)

NextUnits ==
    \E id \in RequestIds :
        \/ UnitStep(id)
        \/ _handle_future_completion(id)
        \/ cancel_request(id)

SpecUnits == InitSubmitted /\ [][NextUnits]_vars

\* ------------------------------------------------------------------------
\* Two queued requests, of one user or of two, with their units, callbacks
\* and cancels, and reset_user_context called for either user.
\* ------------------------------------------------------------------------
NextReset ==
    \/ \E id \in RequestIds : UnitStep(id)
    \/ \E id \in RequestIds : _handle_future_completion(id)
    \/ \E id \in RequestIds : cancel_request(id)
    \/ \E u \in Owners : ResetCollect(u)
    \/ \E id \in RequestIds : ResetCancel(id)
    \/ ResetContext
    \/ ResetReturn

SpecReset == InitSubmitted /\ [][NextReset]_vars

\* ========================================================================
\* Properties
\* ========================================================================
StatusOf(id) == active_requests[id].status
StillRegistered(id) == Registered(id) /\ id \in DOMAIN active_requests'

\* the exchange of request id is in some user's chat history
InHistory(id) ==
    \E u \in DOMAIN user_contexts :
        \E i \in DOMAIN user_contexts[u].chat_history :
            user_contexts[u].chat_history[i] = id

\* C1: once a record's status is completed, error or cancelled, no step of any
\* operation (completion callback, cancel_request, reset_user_context, cleanup
\* thread) changes it to another value while the record exists.
C1_TerminalStatusNeverChanges ==
    [][\A id \in RequestIds :
          (StillRegistered(id) /\ StatusOf(id) \in TerminalStatuses)
          => active_requests'[id].status = StatusOf(id)]_vars

\* the callback of a unit that returned a response ran after the cleanup thread
\* had force-failed the record, and the timeout error is still there
C1_Witness ==
    /\ Registered(1)
    /\ StatusOf(1) = "error"
    /\ active_requests[1].result = MSG_TIMEOUT
    /\ futures[1].outcome = "value"
    /\ done_callback[1] = "finished"

\* C8: when the completion callback runs on a record that is processing or
\* cancelling and the future is cancelled or cancel_requested is set, the record
\* becomes cancelled, whatever the unit returned or raised.
C8_CancellationWins ==
    [][\A id \in RequestIds :
          (/\ done_callback[id] = "invoking"
           /\ done_callback'[id] = "finished"
           /\ Registered(id)
           /\ StatusOf(id) \in LiveStatuses
           /\ (FutureCancelled(id) \/ active_requests[id].cancel_requested))
          => (/\ id \in DOMAIN active_requests'
              /\ active_requests'[id].status = "cancelled")]_vars

\* the unit returned a response, the callback ran, and the record is cancelled
C8_Witness ==
    /\ Registered(1)
    /\ StatusOf(1) = "cancelled"
    /\ futures[1].state = "FINISHED"
    /\ futures[1].outcome = "value"
    /\ done_callback[1] = "finished"

LifecycleEdges ==
    ({"processing"} \X {"cancelling", "completed", "error", "cancelled"})
    \cup ({"cancelling"} \X {"completed", "error", "cancelled"})

\* C10: every status change of a live record is an edge of the lifecycle graph
\* (processing -> cancelling | completed | error | cancelled, cancelling ->
\* completed | error | cancelled); cancelling is entered only from processing,
\* by a cancel that the executor accepted (the future went PENDING -> CANCELLED).
C10_LifecycleGraph ==
    [][\A id \in RequestIds :
          (StillRegistered(id) /\ active_requests'[id].status # StatusOf(id))
          => /\ <<StatusOf(id), active_requests'[id].status>> \in LifecycleEdges
             /\ (active_requests'[id].status = "cancelling"
                   => /\ futures[id].state = "PENDING"
                      /\ futures'[id].state = "CANCELLED")]_vars

\* a record in cancelling: the cancel came between the registration and
\* add_done_callback, and the executor accepted it
C10_Witness ==
    /\ Registered(1)
    /\ StatusOf(1) = "cancelling"
    /\ futures[1].state = "CANCELLED"

\* what the unit's own outcome amounts to, with no cancellation in effect
NaturalState(id) == CompletionState(FutureCancelled(id), FALSE, futures[id].outcome)

\* the get_status calls that hold the terminal result of request id
TerminalReceivers(id) ==
    {p \in Pollers : status_call[p] # NoCall /\ status_call[p].entry_to_remove = id}

\* C2: cancel_request on a registered request whose unit has not started (its
\* future is PENDING) returns accepted, and the record then reaches cancelled.
C2_QueuedCancelEndsCancelled ==
    /\ [][\A id \in RequestIds :
             (/\ cancel_request(id)
              /\ Registered(id)
              /\ StatusOf(id) = "processing"
              /\ futures[id].state = "PENDING")
             => cancel_reply'[id] = CANCEL_ACCEPTED]_vars
    /\ \A id \in RequestIds :
          (Registered(id) /\ cancel_reply[id] = CANCEL_ACCEPTED)
          ~> (~Registered(id) \/ StatusOf(id) = "cancelled")

\* C3: after cancel_request answered "already finished" because the future was
\* done, the record ends with the status and result of the unit's own outcome.
C3_FinishedCancelKeepsOutcome ==
    \A id \in RequestIds :
        (/\ cancel_reply[id] = CANCEL_FUTURE_DONE
         /\ Registered(id)
         /\ StatusOf(id) \in TerminalStatuses)
        => /\ StatusOf(id) = NaturalState(id).status
           /\ active_requests[id].result = NaturalState(id).result

\* C4 as claimed: once submission has returned, a poll while the unit is
\* unfinished returns processing; the first poll after the record became
\* terminal returns the terminal status with its result; every poll after a
\* poll that returned the terminal result gets not found.
C4_SequentialPolls ==
    \A id \in RequestIds :
        (submit_pc[id] = "returned" /\ active_requests_lock = "free")
        => /\ (~FutureDone(id) => StatusView(id).status = "processing")
           /\ ((/\ done_callback[id] = "finished"
                 /\ ~retrieved[id]
                 /\ TerminalReceivers(id) = {})
                => /\ Registered(id)
                   /\ StatusView(id).status \in TerminalStatuses
                   /\ StatusView(id).data = active_requests[id].result)
           /\ (retrieved[id] => StatusView(id).status = "not found")

\* the payload a terminal status is reported with
PayloadsOf(status) ==
    CASE status = "completed" -> {RESPONSE_DATA}
      [] status = "cancelled" -> {MSG_CANCELLED, MSG_CANCELLED_BEFORE}
      [] status = "error" -> {MSG_TASK_ERROR, MSG_INTERNAL, MSG_TIMEOUT}
      [] OTHER -> {}

\* C4 as amended: once submission has returned, a poll while the unit is
\* unfinished returns processing, or error with the timeout message once the
\* cleanup thread has force-failed the record; a poll that finds a terminal
\* record returns its status with its result; every poll after a poll that
\* returned the terminal result gets not found.
C4_SequentialPollsAmended ==
    /\ \A id \in RequestIds :
        (submit_pc[id] = "returned" /\ active_requests_lock = "free")
        => /\ ((~FutureDone(id) /\ Registered(id))
                => \/ StatusView(id) = [status |-> "processing", data |-> None]
                   \/ StatusView(id) = [status |-> "error", data |-> MSG_TIMEOUT])
           /\ ((Registered(id) /\ StatusOf(id) \in TerminalStatuses)
                => /\ StatusView(id).status = StatusOf(id)
                   /\ StatusView(id).data \in PayloadsOf(StatusOf(id)))
           /\ (retrieved[id] => StatusView(id).status = "not found")
    /\ \A p \in Pollers :
        status_call[p] # NoCall
        => /\ status_call[p].status \in TerminalStatuses
           /\ status_call[p].data \in PayloadsOf(status_call[p].status)

\* a poll has returned the response of a completed request and the entry is gone
C4_Witness ==
    /\ retrieved[1]
    /\ ~Registered(1)
    /\ futures[1].outcome = "value"
    /\ submit_pc[1] = "returned"

\* C5 as claimed: with the cleanup thread on its period (its last pass less
\* than CLEANUP_INTERVAL_SECONDS ago), a terminal record that was never polled
\* is not found by a poll made more than STALE_REQUEST_THRESHOLD_SECONDS after
\* its last transition.
C5_StaleRecordNeverVisible ==
    \A id \in RequestIds :
        (/\ Registered(id)
         /\ StatusOf(id) \in TerminalStatuses
         /\ TerminalReceivers(id) = {}
         /\ active_requests[id].age > STALE_REQUEST_THRESHOLD_SECONDS
         /\ cleanup_sleep < CLEANUP_INTERVAL_SECONDS
         /\ active_requests_lock = "free")
        => StatusView(id).status = "not found"

\* C5 as amended: a pass of the cleanup thread leaves no terminal record older
\* than STALE_REQUEST_THRESHOLD_SECONDS, so with the thread on its period a
\* poll finds a terminal record at most STALE_REQUEST_THRESHOLD_SECONDS plus
\* the time since the last pass after the record's last transition.
C5_StaleRecordGoneAfterPass ==
    cleanup_sleep < CLEANUP_INTERVAL_SECONDS
    => \A id \in RequestIds :
          (Registered(id) /\ StatusOf(id) \in TerminalStatuses)
          => active_requests[id].age <= STALE_REQUEST_THRESHOLD_SECONDS + cleanup_sleep

\* a finished request that nobody polled has been swept by the cleanup thread
C5_Witness ==
    /\ submit_pc[1] = "returned"
    /\ done_callback[1] = "finished"
    /\ ~Registered(1)
    /\ ~retrieved[1]
    /\ TerminalReceivers(1) = {}

\* C6: at most one get_status call ever receives the terminal status and
\* payload of a request, under any interleaving of concurrent calls.
C6_TerminalResultDeliveredOnce ==
    \A id \in RequestIds :
        Cardinality(TerminalReceivers(id)) + (IF retrieved[id] THEN 1 ELSE 0) <= 1

\* C7: a record that has been processing or cancelling for longer than
\* PROCESSING_TIMEOUT_SECONDS eventually leaves that state (the cleanup thread
\* moves it to error), even if its unit never finishes.
C7_StuckRequestTimesOut ==
    \A id \in RequestIds :
        (/\ Registered(id)
         /\ StatusOf(id) \in LiveStatuses
         /\ active_requests[id].age > PROCESSING_TIMEOUT_SECONDS)
        ~> (~Registered(id) \/ StatusOf(id) \in TerminalStatuses)

\* the unit finished on its own: it returned or raised without having seen the
\* cancellation flag at its checkpoint
RanToNaturalEnd(id) ==
    /\ futures[id].state = "FINISHED"
    /\ futures[id].outcome \in {"value", "error_dict", "exception"}

C11_ResultSetIffTerminal ==
    \A id \in RequestIds :
        Registered(id)
        => (active_requests[id].result # None <=> StatusOf(id) \in TerminalStatuses)

\* a unit that raised the cancellation signal left a cancelled record with its notice
C11_Witness ==
    /\ Registered(1)
    /\ StatusOf(1) = "cancelled"
    /\ active_requests[1].result = MSG_CANCELLED_BEFORE

\* C12: cancel_requested is false when the record is inserted, and once it is
\* true no step sets it back to false while the record exists.
C12_CancelRequestedMonotone ==
    [][\A id \in RequestIds :
          /\ (~Registered(id) /\ id \in DOMAIN active_requests')
             => ~active_requests'[id].cancel_requested
          /\ (StillRegistered(id) /\ active_requests[id].cancel_requested)
             => active_requests'[id].cancel_requested]_vars

\* the flag set by a cancel is still set after the callback finalised the record
C12_Witness ==
    /\ Registered(1)
    /\ active_requests[1].cancel_requested
    /\ StatusOf(1) = "cancelled"
    /\ done_callback[1] = "finished"
    /\ cancel_reply[1] = CANCEL_RUNNING
    /\ futures[1].outcome = "CancelledError"

\* reset_user_context is past its cancellation loop and its context reset and
\* is about to return
ResetReturning == reset_call.pc = "respond"

\* C13 as claimed: when reset_user_context returns, every record of the user
\* that was live when the reset began (the processing ones of ids_to_cancel;
\* the cancelling ones carry the flag already) and is still in the registry
\* has cancel_requested true.
C13_ResetMarksCollectedRequests ==
    ResetReturning
    => \A id \in reset_call.ids_to_cancel :
          Registered(id) => active_requests[id].cancel_requested

\* C13 as amended: when reset_user_context returns, every record of the user
\* that was live when the reset began and is still processing or cancelling
\* has cancel_requested true; a record that became terminal before the loop
\* reached it is left as it is.
C13_ResetMarksLiveRequests ==
    ResetReturning
    => \A id \in reset_call.ids_to_cancel :
          (Registered(id) /\ StatusOf(id) \in LiveStatuses)
          => active_requests[id].cancel_requested

\* the reset returns with a running request of the user marked and still processing
C13_Witness ==
    /\ ResetReturning
    /\ 1 \in reset_call.ids_to_cancel
    /\ Registered(1)
    /\ StatusOf(1) = "processing"
    /\ futures[1].state = "RUNNING"
    /\ active_requests[1].cancel_requested
    /\ cancel_reply[1] = NoReply

\* the context of the user has nothing in it: no patient identity or record,
\* no notes, no history (a user without a context entry has none either)
ContextEmpty(user_id) ==
    user_id \in DOMAIN user_contexts => user_contexts[user_id] = EmptyContext

\* C14: when reset_user_context(user) returns, the user's conversation
\* context is empty, whatever the state of the user's requests in flight.
C14_ContextEmptyWhenResetReturns ==
    ResetReturning => ContextEmpty(reset_call.user_id)

\* a get_status call that had read the terminal state of id deletes the entry
ReclaimedByPoll(id) ==
    \E p \in Pollers :
        /\ status_call[p].entry_to_remove = id
        /\ status_call'[p] = NoCall
        /\ retrieved'[id]

\* a pass of the cleanup thread removes the stale terminal record id
ReclaimedByCleanup(id) ==
    /\ cleanup_sleep >= CLEANUP_INTERVAL_SECONDS
    /\ cleanup_sleep' = 0
    /\ Stale(active_requests[id])

\* C15: the record is in the registry, in status processing, when the
\* submission inserts it, which is before the request id is returned; from
\* then on it leaves the registry only by a poll that read its terminal state
\* or by the cleanup thread, so a get_status call made after the submission
\* returned finds it unless one of the two has reclaimed it.
C15_VisibleAfterSubmit ==
    [][\A id \in RequestIds :
          /\ (submit_pc[id] = "submitted" /\ submit_pc'[id] = "registered")
             => /\ id \in DOMAIN active_requests'
                /\ active_requests'[id].status = "processing"
          /\ (/\ submit_pc[id] \in {"registered", "returned"}
              /\ Registered(id)
              /\ id \notin DOMAIN active_requests')
             => (ReclaimedByPoll(id) \/ ReclaimedByCleanup(id))
          /\ (submit_pc'[id] = "returned" /\ id \in DOMAIN active_requests')
             => StatusView(id)'.status # "not found"]_vars

\* the submission has returned and a poll would report the request as processing
C15_Witness ==
    /\ submit_pc[1] = "returned"
    /\ Registered(1)
    /\ StatusView(1) = [status |-> "processing", data |-> None]
    /\ futures[1].state = "PENDING"
    /\ ~active_requests[1].cancel_requested

\* C16: a submission whose body lacks user_id or message is answered with the
\* client error (400) at once: nothing is handed to the executor and the
\* registry is left as it was.
C16_InvalidSubmissionRejected ==
    [][\A id \in RequestIds : \A data \in SubmitData :
          (/\ ~ValidSubmission(data)
           /\ \/ SubmitFailed(id, data)
              \/ SubmitRejected(id, data)
              \/ SubmitToExecutor(id, data))
          => /\ submit_pc'[id] = "rejected"
             /\ futures' = futures
             /\ futures[id].state = "NONE"
             /\ active_requests' = active_requests
             /\ ~Registered(id)]_vars

\* the completion callback of id runs on a live record with no cancellation in
\* effect, the unit having ended with outcome
CallbackRunsUncancelled(id, outcome) ==
    /\ done_callback[id] = "invoking"
    /\ done_callback'[id] = "finished"
    /\ Registered(id)
    /\ StatusOf(id) \in LiveStatuses
    /\ ~FutureCancelled(id)
    /\ ~active_requests[id].cancel_requested
    /\ futures[id].outcome = outcome

\* the record of id after the step
RecordBecomes(id, status, result) ==
    /\ id \in DOMAIN active_requests'
    /\ active_requests'[id].status = status
    /\ active_requests'[id].result = result

\* C17: when the unit raised an exception other than the cancellation signal,
\* no cancellation is in effect and the record is live when the callback
\* fires, the record becomes error with a message, and the callback ends
\* normally, releasing the registry lock.
C17_UnitExceptionStoredAsError ==
    [][\A id \in RequestIds :
          CallbackRunsUncancelled(id, "exception")
          => /\ RecordBecomes(id, "error", MSG_INTERNAL)
             /\ active_requests_lock' = "free"]_vars

\* the exception of a unit has been stored as an error
C17_Witness ==
    /\ Registered(1)
    /\ StatusOf(1) = "error"
    /\ active_requests[1].result = MSG_INTERNAL
    /\ futures[1].outcome = "exception"
    /\ done_callback[1] = "finished"

\* C18: with no cancellation in effect the callback stores a returned response
\* as completed with that response as result, and a returned dict with an
\* "error" entry as error with the entry's message as result.
C18_OutcomeMapping ==
    [][\A id \in RequestIds :
          /\ CallbackRunsUncancelled(id, "value")
             => RecordBecomes(id, "completed", RESPONSE_DATA)
          /\ CallbackRunsUncancelled(id, "error_dict")
             => RecordBecomes(id, "error", MSG_TASK_ERROR)]_vars

\* a returned error dict has been stored as an error with its message
C18_Witness ==
    /\ Registered(1)
    /\ StatusOf(1) = "error"
    /\ active_requests[1].result = MSG_TASK_ERROR
    /\ futures[1].outcome = "error_dict"
    /\ ~active_requests[1].cancel_requested
    /\ done_callback[1] = "finished"

\* C19: cancel_request for an id that is not in the registry answers not
\* found, and for a record in a terminal status answers that the request is
\* already final; in both cases no record of the registry is changed.
C19_RejectedCancelChangesNothing ==
    [][\A id \in RequestIds :
          /\ (cancel_request(id) /\ ~Registered(id))
             => /\ cancel_reply'[id] = CANCEL_NOT_FOUND
                /\ active_requests' = active_requests
          /\ (cancel_request(id) /\ Registered(id) /\ StatusOf(id) \in TerminalStatuses)
             => /\ cancel_reply'[id] = CANCEL_FINAL_STATE
                /\ active_requests' = active_requests]_vars

\* a cancel of a completed request was refused and the record kept its result
C19_Witness ==
    /\ cancel_reply[1] = CANCEL_FINAL_STATE
    /\ Registered(1)
    /\ StatusOf(1) = "completed"
    /\ active_requests[1].result = RESPONSE_DATA
    /\ ~active_requests[1].cancel_requested

\* C20: every record that enters the registry is eventually removed from it,
\* polled or not, whether or not its unit ever finishes.
C20_RecordEventuallyRemoved ==
    \A id \in RequestIds : Registered(id) ~> ~Registered(id)


\* C21: the registry holds one record per request id (it is keyed by the id),
\* a record enters it only by the submission's insertion, which happens once
\* per id, and an id whose record was removed never gets a record again: no
\* late callback, cancel, reset or cleanup pass re-creates it.
C21_ReclaimedIdNeverReappears ==
    [][\A id \in RequestIds :
          /\ (~Registered(id) /\ id \in DOMAIN active_requests')
             => (submit_pc[id] = "submitted" /\ submit_pc'[id] = "registered")
          /\ submit_pc[id] \in {"registered", "returned"}
             => submit_pc'[id] \in {"registered", "returned"}]_vars

\* the id's record was handed out by a poll and removed, its unit has ended
\* with a value and the completion callback has run: the id has no record
C21_Witness ==
    /\ submit_pc[1] = "returned"
    /\ retrieved[1]
    /\ ~Registered(1)
    /\ done_callback[1] = "finished"
    /\ futures[1].outcome = "value"


\* C22: active_requests_lock never causes a deadlock: no thread is left
\* holding it while it waits for it, so cancel_request and
\* reset_user_context always return, also when future.cancel() succeeds on a
\* queued unit and runs the completion callback on the calling thread.
\* (Every lock scope of the program is one step here, so the lock is taken
\* between two steps only when its holder waits for it.)
C22_RegistryLockNeverWedged == active_requests_lock = "free"


\* C23: a unit of work never invokes the generation service (the chat chain,
\* the record-confirmation chain or the note-summarisation chain) while it
\* holds user_contexts_lock.
C23_NoGenerationUnderContextLock ==
    \A id \in RequestIds :
        unit_pc[id] \in {"summarising", "generating"} => id \notin user_contexts_lock


\* C24: when the completion callback runs for a request whose record is
\* already completed, error or cancelled, or is no longer in the registry,
\* it changes nothing: status, result and timestamp of every record stay as
\* they are, so the late outcome of a timed-out request is discarded.
C24_LateCallbackChangesNothing ==
    [][\A id \in RequestIds :
          (/\ done_callback[id] = "invoking"
           /\ done_callback'[id] = "finished"
           /\ (Registered(id) => StatusOf(id) \in TerminalStatuses))
          => active_requests' = active_requests]_vars

\* the cleanup thread timed the request out, the unit then returned an error
\* dict, and the callback has run: the record still carries the timeout
C24_Witness ==
    /\ Registered(1)
    /\ active_requests[1].status = "error"
    /\ active_requests[1].result = MSG_TIMEOUT
    /\ active_requests[1].age >= TickSeconds
    /\ futures[1].outcome = "error_dict"
    /\ done_callback[1] = "finished"


\* C25: cancel_request and the cancel loop of reset_user_context never write
\* a final status: a step of either leaves every record's status as it was or
\* makes it cancelling.  A record passes from processing or cancelling to
\* completed, error or cancelled only in a step of the completion callback,
\* or of the cleanup thread when it stores the timeout error.
C25_OnlyCallbackFinalises ==
    [][\A id \in RequestIds :
          /\ ((\E c \in RequestIds : cancel_request(c) \/ ResetCancel(c))
              /\ Registered(id))
             => /\ id \in DOMAIN active_requests'
                /\ StatusOf(id)' \in {StatusOf(id), "cancelling"}
                /\ active_requests'[id].result = active_requests[id].result
          /\ (/\ StillRegistered(id)
              /\ StatusOf(id) \in LiveStatuses
              /\ StatusOf(id)' \in TerminalStatuses)
             => \/ _handle_future_completion(id)
                \/ /\ background_cleanup
                   /\ StatusOf(id)' = "error"
                   /\ active_requests'[id].result = MSG_TIMEOUT]_vars

\* a reset has cancelled the user's queued request: the record is cancelling,
\* written by the reset's loop, and no cancel_request call was made for it
C25_Witness ==
    /\ Registered(1)
    /\ StatusOf(1) = "cancelling"
    /\ active_requests[1].result = None
    /\ reset_call.pc \in {"cancel", "respond"}
    /\ 1 \in reset_call.ids_to_cancel
    /\ cancel_reply[1] = NoReply


\* C26: a record reaches status cancelled only if cancel_requested was set on
\* it by cancel_request or reset_user_context: a request nobody cancelled
\* never ends cancelled, whatever the interleaving of the submission's record
\* insertion with the start of the unit.
C26_CancelledOnlyIfRequested ==
    \A id \in RequestIds :
        (Registered(id) /\ StatusOf(id) = "cancelled")
            => active_requests[id].cancel_requested


\* C27: a cancel_request call that finds the record in status processing with
\* a unit that is not done sets cancel_requested; the status becomes
\* cancelling exactly when the executor accepts the cancellation (the unit
\* had not started), and stays processing when it rejects it.
C27_CancelOnProcessing ==
    [][\A id \in RequestIds :
          (/\ cancel_request(id)
           /\ Registered(id)
           /\ StatusOf(id) = "processing"
           /\ ~FutureDone(id))
          => /\ id \in DOMAIN active_requests'
             /\ active_requests'[id].cancel_requested
             /\ StatusOf(id)' = IF futures[id].state = "PENDING"
                                THEN "cancelling" ELSE "processing"]_vars


\* C28: when cancel_requested is set on the record before a running unit
\* reaches the checkpoint ahead of its main generation call, the unit raises
\* the cancellation signal at that checkpoint and the generation service is
\* not invoked after it; when the completion callback has run, the record
\* is cancelled.
C28_CheckpointAbortsEndsCancelled ==
    [][\A id \in RequestIds :
          /\ (/\ UnitCheckpoint(id)
              /\ Registered(id)
              /\ active_requests[id].cancel_requested)
             => /\ futures'[id].state = "FINISHED"
                /\ futures'[id].outcome = "CancelledError"
                /\ unit_pc'[id] = "done"
          /\ (/\ _handle_future_completion(id)
              /\ StillRegistered(id)
              /\ futures[id].outcome = "CancelledError"
              /\ active_requests[id].cancel_requested)
             => StatusOf(id)' = "cancelled"]_vars

\* C28 as amended: the same, except that the record stays in the timeout
\* error when the cleanup thread stored it before the callback ran.
C28_CheckpointAbortsEndsCancelledOrTimedOut ==
    [][\A id \in RequestIds :
          /\ (/\ UnitCheckpoint(id)
              /\ Registered(id)
              /\ active_requests[id].cancel_requested)
             => /\ futures'[id].state = "FINISHED"
                /\ futures'[id].outcome = "CancelledError"
                /\ unit_pc'[id] = "done"
          /\ (/\ _handle_future_completion(id)
              /\ StillRegistered(id)
              /\ futures[id].outcome = "CancelledError"
              /\ active_requests[id].cancel_requested)
             => \/ /\ StatusOf(id)' = "cancelled"
                   /\ active_requests'[id].result = MSG_CANCELLED
                \/ /\ StatusOf(id) = "error"
                   /\ active_requests[id].result = MSG_TIMEOUT
                   /\ active_requests'[id] = active_requests[id]]_vars

\* the cancel found the unit running, past its patient switch; the unit then
\* raised at the checkpoint and the callback stored the cancellation
C28_Witness ==
    /\ Registered(1)
    /\ StatusOf(1) = "cancelled"
    /\ cancel_reply[1] = CANCEL_RUNNING
    /\ futures[1].outcome = "CancelledError"
    /\ done_callback[1] = "finished"
    /\ UnitUser(1) \in DOMAIN user_contexts
    /\ user_contexts[UnitUser(1)].patient_id = "patient"


\* C29: a request whose record is in status cancelled left no persisted side
\* effect: no note was appended to the note store and no exchange of it was
\* appended to the conversation history.
C29_CancelledLeavesNoTrace ==
    \A id \in RequestIds :
        (Registered(id) /\ StatusOf(id) = "cancelled") => ~InHistory(id)


\* C30: when a poll and the cleanup thread both set out to remove the same
\* terminal record, the one that comes second finds the id absent and
\* changes nothing; neither removes any other record: the poll's second lock
\* scope removes at most the record it read, the cleanup pass exactly the
\* stale terminal records, and the records that stay are not touched.
C30_PollAndCleanupRace ==
    [][/\ \A p \in Pollers :
             StatusCleanup(p)
             => /\ DOMAIN active_requests' =
                      DOMAIN active_requests \ {status_call[p].entry_to_remove}
                /\ \A j \in DOMAIN active_requests' :
                      active_requests'[j] = active_requests[j]
       /\ background_cleanup
             => /\ DOMAIN active_requests' =
                      {j \in DOMAIN active_requests : ~Stale(active_requests[j])}
                /\ \A j \in DOMAIN active_requests' :
                      active_requests'[j] = active_requests[j]]_vars

\* a poll read record 1 and has not yet come to its second lock scope; the
\* cleanup thread removed the record meanwhile (no poll has returned it);
\* the other record is still there
C30_Witness ==
    /\ \E p \in Pollers : status_call[p].entry_to_remove = 1
    /\ ~Registered(1)
    /\ ~retrieved[1]
    /\ Registered(2)


\* C31: a pass of the cleanup thread removes a record only if its status is
\* completed, error or cancelled and its last transition is more than
\* STALE_REQUEST_THRESHOLD_SECONDS old: it never removes a processing or
\* cancelling record, nor a terminal record younger than the threshold.
C31_CleanupRemovesOnlyStaleTerminal ==
    [][background_cleanup
       => \A id \in RequestIds :
             (Registered(id) /\ id \notin DOMAIN active_requests')
             => /\ StatusOf(id) \in TerminalStatuses
                /\ active_requests[id].age > STALE_REQUEST_THRESHOLD_SECONDS]_vars

\* a pass has just ended and left in the registry a record that is still
\* processing or cancelling although it is older than the staleness threshold
C31_Witness ==
    /\ cleanup_sleep = 0
    /\ Registered(1)
    /\ StatusOf(1) \in LiveStatuses
    /\ active_requests[1].age > STALE_REQUEST_THRESHOLD_SECONDS
    /\ active_requests[1].age < STALE_REQUEST_THRESHOLD_SECONDS + CLEANUP_INTERVAL_SECONDS


\* C32: a pass of the cleanup thread that finds a processing or cancelling
\* record older than PROCESSING_TIMEOUT_SECONDS sets its status to error,
\* stores the timeout message, refreshes its timestamp and keeps the record
\* in the registry; a record carrying the timeout error leaves the registry
\* only by a poll that read it or by a later pass that finds it stale.
C32_TimeoutKeepsRecord ==
    [][\A id \in RequestIds :
          /\ (background_cleanup /\ Registered(id) /\ TimedOut(active_requests[id]))
             => /\ id \in DOMAIN active_requests'
                /\ active_requests'[id] =
                      [active_requests[id] EXCEPT !.status = "error",
                                                  !.result = MSG_TIMEOUT,
                                                  !.age = 0]
          /\ (/\ Registered(id)
              /\ active_requests[id].result = MSG_TIMEOUT
              /\ id \notin DOMAIN active_requests')
             => \/ ReclaimedByPoll(id)
                \/ /\ background_cleanup
                   /\ active_requests[id].age > STALE_REQUEST_THRESHOLD_SECONDS]_vars

\* the pass that timed the request out has just ended: the record is in
\* the registry with the timeout error and a fresh timestamp, the unit runs on
C32_Witness ==
    /\ cleanup_sleep = 0
    /\ Registered(1)
    /\ StatusOf(1) = "error"
    /\ active_requests[1].result = MSG_TIMEOUT
    /\ active_requests[1].age = 0
    /\ futures[1].state = "RUNNING"


\* C33: once reset_user_context(owner) has returned with the owner's context
\* emptied, no request submitted before the reset changes that context: with
\* the owner's only request among those the reset found live when it began,
\* the context stays empty from the return on (the model has no request
\* submitted after the reset).
C33_ContextStaysEmptyAfterReset ==
    \A u \in Owners :
        []((/\ reset_call.pc = "respond"
            /\ reset_call.user_id = u
            /\ 1 \in reset_call.ids_to_cancel)
           => []((reset_call = NoReset /\ ContextEmpty(u)) => []ContextEmpty(u)))


\* C34: the completion callback is invoked exactly once per submitted
\* request: it is invoked as soon as the future is done and the callback is
\* registered, it is never invoked again once it has run, it is invoked only
\* when the unit's outcome is final (finished or cancelled future), and never
\* before the submission has inserted the request's record.
C34_CallbackOnceAfterOutcome ==
    [][\A id \in RequestIds :
          /\ done_callback'[id] \in {"invoking", "finished"}
             => /\ FutureDone(id)'
                /\ submit_pc'[id] = "returned"
          /\ (FutureDone(id)' /\ submit_pc'[id] = "returned")
             => done_callback'[id] \in {"invoking", "finished"}
          /\ done_callback[id] = "finished" => done_callback'[id] = "finished"
          /\ (done_callback[id] # "invoking" /\ done_callback'[id] = "invoking")
             => done_callback[id] \in {"none", "registered"}
          /\ futures[id].state = "FINISHED" => futures'[id] = futures[id]]_vars

\* the unit was done before the submission registered the callback (it
\* stopped at its checkpoint before the record was inserted); the callback
\* ran at registration, on the inserted record
C34_Witness ==
    /\ done_callback[1] = "finished"
    /\ submit_pc[1] = "returned"
    /\ futures[1].outcome = "CancelledError"
    /\ Registered(1)
    /\ ~active_requests[1].cancel_requested
    /\ StatusOf(1) = "cancelled"


\* C35: every read of a record's fields (status, result, cancel_requested),
\* the cancellation checks inside a running unit included, is made while
\* holding active_requests_lock: no step that reads a record is taken while
\* another thread holds the lock.
C35_RecordReadsUnderLock ==
    [][\A id \in RequestIds :
          (\/ UnitSwitchPatient(id)
           \/ UnitNotesCheckpoint(id)
           \/ UnitNotesSummarised(id)
           \/ UnitCheckpoint(id)
           \/ _handle_future_completion(id)
           \/ cancel_request(id))
          => active_requests_lock = "free"]_vars

\* C36: active_requests_lock is never held while a unit invokes the
\* generation service (the chat, record or note-summarisation call) or while
\* a thread waits on a unit's outcome: whenever a unit is inside such a call
\* the lock is free, so submit, poll, cancel and the cleanup thread can go on.
C36_NoGenerationUnderRegistryLock ==
    \A id \in RequestIds :
        unit_pc[id] \in {"summarising", "generating"} => active_requests_lock = "free"


\* C37: every mutation of a user's conversation context (creation, wholesale
\* replacement, history append, reset) is made holding user_contexts_lock: a
\* step changes user_contexts only when the lock is free for it or its unit
\* holds it.  Appends of concurrent requests of one user are serialised: a
\* unit that returns a response appends its exchange to the history as it is
\* then, and every other step leaves a user's history as it is or replaces
\* the whole context, so no append is lost or interleaved.
C37_ContextMutationsSerialised ==
    [][/\ user_contexts' # user_contexts
          => \/ user_contexts_lock = {}
             \/ \E id \in user_contexts_lock : UnitNotesSummarised(id)
       /\ \A u \in DOMAIN user_contexts :
             /\ u \in DOMAIN user_contexts'
             /\ \/ user_contexts'[u] = user_contexts[u]
                \/ user_contexts'[u] \in {PatientContext, EmptyContext}
                \/ \E id \in RequestIds :
                      /\ UnitFinish(id, "value")
                      /\ UnitUser(id) = u
                      /\ user_contexts'[u] =
                            [user_contexts[u] EXCEPT !.chat_history = Append(@, id)]
       /\ \A id \in RequestIds :
             (UnitFinish(id, "value") /\ UnitUser(id) \in DOMAIN user_contexts)
             => user_contexts'[UnitUser(id)].chat_history =
                   Append(user_contexts[UnitUser(id)].chat_history, id)]_vars

\* two requests of the same user ran side by side and both returned a
\* response: the user's history holds both exchanges
C37_Witness ==
    /\ futures[1].user_id = futures[2].user_id
    /\ futures[1].outcome = "value"
    /\ futures[2].outcome = "value"
    /\ UnitUser(1) \in DOMAIN user_contexts
    /\ user_contexts[UnitUser(1)].chat_history \in {<<1, 2>>, <<2, 1>>}


\* C38: a failure inside one pass of the cleanup thread does not stop the
\* loop: after a pass that raised, the loop waits and later passes run, time
\* out the records stuck in processing and sweep the stale ones, so every
\* record that is in the registry after a failed pass is eventually removed.
C38_CleanupSurvivesFailure ==
    \A id \in RequestIds :
        (cleanup_sleep < 0 /\ Registered(id)) ~> ~Registered(id)

\* a pass has just failed: the loop is in its retry wait, the record it
\* should have swept is still in the registry, stale
C38_Witness ==
    /\ cleanup_sleep < 0
    /\ Registered(1)
    /\ Stale(active_requests[1])


\* C39: the history of a user's context is a bounded rolling history: in
\* every reachable state it holds no more entries than the window the prompt
\* is built from, however many requests of that user ran to a response.
C39_HistoryBounded ==
    \A u \in DOMAIN user_contexts :
        Len(user_contexts[u].chat_history) <= HISTORY_WINDOW


\* the records and the contexts of every user but user_id are, after the
\* step, what they were before it
OtherOwnersUntouched(user_id) ==
    /\ \A id \in DOMAIN active_requests :
          active_requests[id].user_id # user_id
          => /\ id \in DOMAIN active_requests'
             /\ active_requests'[id] = active_requests[id]
    /\ \A u \in DOMAIN user_contexts :
          u # user_id
          => /\ u \in DOMAIN user_contexts'
             /\ user_contexts'[u] = user_contexts[u]

\* C40: reset_user_context(user) affects only that user: no step of it sets
\* cancel_requested on, or changes the status or the timestamp of, a record
\* whose user_id is another user, and no step of it changes another user's
\* context.
C40_ResetTouchesOnlyItsOwner ==
    [][/\ \A u \in Owners : ResetCollect(u) => OtherOwnersUntouched(u)
       /\ ((\E id \in RequestIds : ResetCancel(id)) \/ ResetContext \/ ResetReturn)
          => OtherOwnersUntouched(reset_call.user_id)]_vars

\* a reset of nurse1 that found nurse1's request live is through its
\* cancellation loop and its context reset, while nurse2's request is still
\* processing, unmarked, and nurse2 has a context
C40_Witness ==
    /\ ResetReturning
    /\ reset_call.user_id = "nurse1"
    /\ reset_call.ids_to_cancel = {1}
    /\ Registered(2)
    /\ active_requests[2].user_id = "nurse2"
    /\ active_requests[2].status = "processing"
    /\ ~active_requests[2].cancel_requested
    /\ "nurse2" \in DOMAIN user_contexts

====
